---- MODULE Spec2Model ----
(***************************************************************************)
(* A model of sync.py, the release/backup tool of mamba.TorchDiscordSync.  *)
(*                                                                         *)
(* Text is modelled as sequences: a file name is a sequence of one-char    *)
(* strings, a relative path is a sequence of such names (its segments), a  *)
(* document is a sequence of tokens.  The whitelist rules are matched the   *)
(* way Python's re.match and str.startswith match them.                    *)
(***************************************************************************)
EXTENDS Integers, Sequences, FiniteSets, TLC

VARIABLES
    pc,         \* position of the process in the operation it runs
    mode,       \* the operation selected on the command line
    sep,        \* os.sep of the platform the script runs on
    now,        \* the clock reading the run formats its dates from
    whitelist,  \* RELEASE_WHITELIST
    version,    \* VER, the version the run works on
    head,       \* the branch HEAD names
    wt,         \* the files of the project directory: path -> content
    archives,   \* the zip archives this run has written
    calls,      \* history: the calls of generate_changelog made so far
    branches,   \* the local branches: name -> tree of the branch's commit
    index,      \* the git index
    tags,       \* the local tags: version -> tree of the tagged commit
    remote,     \* the remotes: release branch, development branch, tags
    hosted,     \* the versions that have a hosted release
    ignored,    \* the paths .gitignore excludes
    cmdLog,     \* history: the external commands this run has issued
    atStart     \* history: what the repository held when this run started

gitVars == <<branches, index, tags, remote, hosted, ignored, cmdLog, atStart>>

vars == <<pc, mode, sep, now, whitelist, version, head, wt, archives, calls, gitVars>>

----------------------------------------------------------------------------
(* Strings                                                                 *)

StartsWith(s, p) == Len(p) <= Len(s) /\ SubSeq(s, 1, Len(p)) = p

EndsWith(s, p) == Len(p) <= Len(s) /\ SubSeq(s, Len(s) - Len(p) + 1, Len(s)) = p

\* Python's `sub in s`
Contains(s, sub) ==
    \E i \in 1..(Len(s) - Len(sub) + 1) : SubSeq(s, i, i + Len(sub) - 1) = sub

\* str.replace(old, new) for a one-character old and new
ReplaceChar(s, old, new) == [i \in 1..Len(s) |-> IF s[i] = old THEN new ELSE s[i]]

RECURSIVE Join(_, _)
\* os.path.join of the segments of a relative path
Join(segs, s) ==
    IF Len(segs) = 0 THEN <<>>
    ELSE IF Len(segs) = 1 THEN segs[1]
    ELSE segs[1] \o <<s>> \o Join(Tail(segs), s)

\* One regular-expression atom against one character: an escaped character
\* or any other character stands for itself, a bare dot for any character.
AtomMatches(atom, escaped, c) == IF atom = "." /\ ~escaped THEN TRUE ELSE atom = c

RECURSIVE ReMatch(_, _)
\* re.match(p, s): p matched at the start of s (the end of s is free unless
\* p ends in $), for the syntax the whitelist uses: characters, \c, ., x*, $.
ReMatch(p, s) ==
    IF Len(p) = 0 THEN TRUE
    ELSE IF p = <<"$">> THEN Len(s) = 0
    ELSE
        LET escaped == p[1] = "\\" /\ Len(p) >= 2
            atom    == IF escaped THEN p[2] ELSE p[1]
            rest    == IF escaped THEN Tail(Tail(p)) ELSE Tail(p)
        IN  IF Len(rest) > 0 /\ rest[1] = "*"
            THEN \/ ReMatch(Tail(rest), s)
                 \/ /\ Len(s) > 0
                    /\ AtomMatches(atom, escaped, s[1])
                    /\ ReMatch(p, Tail(s))
            ELSE /\ Len(s) > 0
                 /\ AtomMatches(atom, escaped, s[1])
                 /\ ReMatch(rest, Tail(s))

----------------------------------------------------------------------------
(* Names                                                                   *)

DotGit       == <<".", "g", "i", "t">>
SyncPyName   == <<"s", "y", "n", "c", ".", "p", "y">>
ConfigName   == <<"c", "o", "n", "f", "i", "g", "_", "s", "y", "n", "c", ".", "i", "n", "i">>
PluginName   == <<"P", "l", "u", "g", "i", "n">>
ManifestName == <<"m", "a", "n", "i", "f", "e", "s", "t", ".", "x", "m", "l">>
GitignoreName == <<".", "g", "i", "t", "i", "g", "n", "o", "r", "e">>
LicenseName  == <<"L", "I", "C", "E", "N", "S", "E">>
ChangelogName == <<"C", "H", "A", "N", "G", "E", "L", "O", "G", ".", "m", "d">>
ReadmeName   == <<"R", "E", "A", "D", "M", "E", ".", "m", "d">>
LogsName     == <<"l", "o", "g", "s">>

\* RELEASE_WHITELIST as shipped: the default of ReleaseWhiteList, split at the commas
RulePluginDir == PluginName \o <<"/">>
RuleManifest  == ManifestName
RuleGitignore == GitignoreName
RuleLicense   == LicenseName
RuleChangelog == ChangelogName
RuleCsproj    == <<".", "*", "\\", ".", "c", "s", "p", "r", "o", "j", "$">>
RuleSln       == <<".", "*", "\\", ".", "s", "l", "n", "$">>
RuleMd        == <<".", "*", "\\", ".", "m", "d", "$">>

DefaultWhiteList ==
    {RulePluginDir, RuleManifest, RuleGitignore, RuleLicense, RuleChangelog,
     RuleCsproj, RuleSln, RuleMd}

----------------------------------------------------------------------------
(* create_backup                                                           *)

ADllName      == <<"a", ".", "d", "l", "l">>
NotesName     == <<"n", "o", "t", "e", "s", ".", "m", "d">>
SecretName    == <<"s", "e", "c", "r", "e", "t", ".", "k", "e", "y">>
DocsName      == <<"d", "o", "c", "s">>
GitConfigName == <<"c", "o", "n", "f", "i", "g">>

Versions == {"1.0.0", "1.0.1"}
Clock    == {[date |-> "2026-11-01", time |-> "120000"],
             [date |-> "2026-11-02", time |-> "093000"]}

PROJECT_NAME == "proj"

\* BACKUP_NAME_FORMAT.format(...), the default BackupFormat
BackupName(t, type_label, ver, branch) ==
    <<t.date, "_", t.time, "_", type_label, "_", PROJECT_NAME, "_v", ver,
      "_", "LOCAL", "_", branch, ".zip">>

\* the test of the for-loop of create_backup on one file of os.walk:
\* TRUE when the file is written to the archive
ZipIncludes(path, name, type_label, rules, s) ==
    LET file       == path[Len(path)]
        rel_path   == Join(path, s)
        match_path == ReplaceChar(rel_path, "\\", "/")
    IN  /\ file # name
        /\ type_label = "LOCAL_ZIP" =>
              /\ ~Contains(match_path, DotGit)
              /\ \E p \in rules :
                     \/ EndsWith(p, <<"/">>) /\ StartsWith(match_path, p)
                     \/ ReMatch(p, file)

\* the files os.walk(script_dir) meets: the project's files and, when the
\* archive is written into the project directory, the archive being written
WalkFiles(files, name, destination) ==
    files \cup (IF destination = "local" THEN {<<name>>} ELSE {})

\* create_backup(version, type_label, destination) when nothing raises
BackupArchive(files, t, type_label, destination, ver, branch, rules, s) ==
    LET name == BackupName(t, type_label, ver, branch)
    IN  [name        |-> name,
         type        |-> type_label,
         destination |-> destination,
         entries     |-> {f \in WalkFiles(files, name, destination) :
                             ZipIncludes(f, name, type_label, rules, s)}]

\* the ways create_backup can end.  Each gives the archive files left at
\* zip_path and whether "Archive SUCCESS" was logged:
\*   - every zipf.write returns: the archive as above;
\*   - zipfile.ZipFile(zip_path, 'w') raises: no file is created;
\*   - zipf.write raises on a file: the with-statement closes the archive on
\*     the way out, which writes its central directory, so zip_path holds a
\*     readable archive of the files written before the failure (os.walk
\*     gives the files in no fixed order); nothing removes it.
\* In the last two cases the except clause logs "Archive FAILED" and
\* create_backup returns.
CreateBackupOutcomes(files, t, type_label, destination, ver, branch, rules, s) ==
    LET whole == BackupArchive(files, t, type_label, destination, ver, branch, rules, s)
    IN  {[left |-> {whole}, ok |-> TRUE], [left |-> {}, ok |-> FALSE]}
        \cup {[left |-> {[whole EXCEPT !.entries = written]}, ok |-> FALSE] :
                 written \in {w \in SUBSET whole.entries : w # whole.entries}}

\* log_and_print(f"Archive SUCCESS: {zip_path}") or log_and_print(f"Archive FAILED: {e}", "ERROR")
ArchiveLogLine(ok) ==
    [step |-> "create_backup", checked |-> FALSE,
     rc |-> IF ok THEN "ok" ELSE "env",
     note |-> IF ok THEN "Archive SUCCESS" ELSE "Archive FAILED"]

----------------------------------------------------------------------------
(* generate_changelog                                                      *)

NL == "\n"

\* "# Changelog\n\n"
ChangelogTitle == <<"# Changelog", NL, NL>>

\* f"## [{version}]"
SectionHeader(ver) == <<"## [", ver, "]">>

RECURSIVE ReplaceAll(_, _, _)
\* str.replace(old, new): every occurrence of old, left to right, the
\* replacement text not being searched again
ReplaceAll(s, old, new) ==
    IF Len(s) < Len(old) THEN s
    ELSE IF StartsWith(s, old)
         THEN new \o ReplaceAll(SubSeq(s, Len(old) + 1, Len(s)), old, new)
         ELSE <<s[1]>> \o ReplaceAll(Tail(s), old, new)

\* commits: the stripped output of git log, or the default line
ChangelogCommits(gitlog) == IF gitlog = <<>> THEN <<"- General updates.">> ELSE gitlog

\* entry = f"## [{version}] - {date}\n{commits}\n\n"
ChangelogEntry(ver, date, gitlog) ==
    SectionHeader(ver) \o <<" - ", date, NL>> \o ChangelogCommits(gitlog) \o <<NL, NL>>

\* the text generate_changelog works on: the file, or the title of a new one
ChangelogContent(files, path) ==
    IF path \in DOMAIN files THEN files[path] ELSE ChangelogTitle

\* a mutation: the entry is inserted whether or not the section exists
ChangelogWrittenAlways(files, path, ver, date, gitlog) ==
    LET content == ChangelogContent(files, path)
        text    == ReplaceAll(content, ChangelogTitle,
                              ChangelogTitle \o ChangelogEntry(ver, date, gitlog))
    IN  [f \in DOMAIN files \cup {path} |-> IF f = path THEN text ELSE files[f]]

\* the files after generate_changelog(version): the changelog is rewritten
\* only when it holds no section header of the version
ChangelogWritten(files, path, ver, date, gitlog) ==
    LET content == ChangelogContent(files, path)
    IN  IF ~Contains(content, SectionHeader(ver))
        THEN LET text == ReplaceAll(content, ChangelogTitle,
                                    ChangelogTitle \o ChangelogEntry(ver, date, gitlog))
             IN  [f \in DOMAIN files \cup {path} |-> IF f = path THEN text ELSE files[f]]
        ELSE files

----------------------------------------------------------------------------
(* apply_whitelist                                                         *)

\* the test of apply_whitelist on one entry of os.listdir("."): a rule
\* naming a directory keeps the entry of that name, any rule keeps the
\* entries re.match finds it at the start of
ItemAllowed(item, rules) ==
    \E p \in rules :
        \/ EndsWith(p, <<"/">>) /\ item = SubSeq(p, 1, Len(p) - 1)
        \/ ReMatch(p, item)

\* the entries apply_whitelist never looks at
ItemSkipped(item) == item = DotGit \/ item \in {SyncPyName, ConfigName}

\* the files left once every entry that is neither skipped nor allowed has
\* been removed (shutil.rmtree for a directory, os.remove for a file)
ApplyWhitelistTo(files, rules) ==
    LET kept == {f \in DOMAIN files : ItemSkipped(f[1]) \/ ItemAllowed(f[1], rules)}
    IN  [f \in kept |-> files[f]]

----------------------------------------------------------------------------
(* The README rewrite of handle_master_sync                                *)

VersionWords == {"Version: ", "version "}
VersionNumbers == Versions \cup {"0.9.0"}

\* re.sub(r"(?i)(version[:\s]+)([0-9\.]+)", rf"\g<1>{version}", txt): the
\* number after each "version" word becomes the version
ReadmeRewritten(txt, ver) ==
    [i \in 1..Len(txt) |->
        IF i > 1 /\ txt[i - 1] \in VersionWords /\ txt[i] \in VersionNumbers
        THEN ver ELSE txt[i]]

----------------------------------------------------------------------------
(* git, as far as the script drives it.  A tree maps the paths it holds to  *)
(* their contents; a branch or a tag is the tree of its commit.            *)

Absent == <<"<absent>">>

At(tree, f) == IF f \in DOMAIN tree THEN tree[f] ELSE Absent

EmptyTree == <<>>

\* the tree of the commit HEAD names; none while the branch is unborn
HeadTree(hd, brs) == IF hd \in DOMAIN brs THEN brs[hd] ELSE EmptyTree

Paths(a, b, c) == DOMAIN a \cup DOMAIN b \cup DOMAIN c

Restrict(tree, S) == [f \in S \cap DOMAIN tree |-> tree[f]]

\* a function with f set to the content c, or without f when c is Absent
Put(tree, f, c) ==
    IF c = Absent THEN Restrict(tree, DOMAIN tree \ {f})
    ELSE [g \in DOMAIN tree \cup {f} |-> IF g = f THEN c ELSE tree[g]]

\* git status --porcelain prints something: staged changes, unstaged changes
\* of tracked files, or untracked files that are not ignored
StatusNonEmpty(hd, brs, idx, files, ign) ==
    \/ idx # HeadTree(hd, brs)
    \/ \E f \in DOMAIN idx : At(files, f) # idx[f]
    \/ \E f \in DOMAIN files : f \notin DOMAIN idx /\ f \notin ign

\* git add <paths>: every path must name a file of the working tree or of
\* the index, and none may be an ignored file that is not tracked
AddPathsOk(idx, files, ign, paths) ==
    \A f \in paths :
        /\ f \in DOMAIN files \cup DOMAIN idx
        /\ ~(f \in ign /\ f \notin DOMAIN idx)

\* tree with the paths taken from `from`: set where `from` has them, removed
\* where it has not
PutAll(tree, from, paths) ==
    LET S == (DOMAIN tree \ {f \in paths : f \notin DOMAIN from})
                 \cup (paths \cap DOMAIN from)
    IN  [f \in S |-> IF f \in paths THEN from[f] ELSE tree[f]]

AddPaths(idx, files, paths) == PutAll(idx, files, paths)

\* what git stores of a file: the log file is appended to before every
\* command, so the stored copy is always older than the file
LogText     == <<"log", "appended">>
LogSnapshot == <<"log">>

\* git add -A: the index becomes the working tree, less the ignored files
\* that are not tracked
AddAllIndex(idx, files, ign, logpath) ==
    LET S == {f \in DOMAIN files : f \notin ign \/ f \in DOMAIN idx}
    IN  [f \in S |-> IF f = logpath THEN LogSnapshot ELSE files[f]]

\* git commit: without --allow-empty there must be something staged
CommitOk(allow_empty, hd, brs, idx) == allow_empty \/ idx # HeadTree(hd, brs)

Committed(hd, brs, idx) ==
    [b \in DOMAIN brs \cup {hd} |-> IF b = hd THEN idx ELSE brs[b]]

\* Switching from tree H to tree T (git checkout <branch>): a path the two
\* trees differ in is left alone when the index already has T's entry; else
\* the index must have H's entry and the file must be that entry, missing,
\* or an ignored file git may overwrite
SwitchOk(H, T, idx, files, ign) ==
    \A f \in Paths(H, T, idx) :
        (At(H, f) # At(T, f) /\ At(idx, f) # At(T, f)) =>
            /\ At(idx, f) = At(H, f)
            /\ \/ At(files, f) = At(idx, f)
               \/ At(files, f) = Absent
               \/ At(idx, f) = Absent /\ f \in ign

SwitchChanged(H, T, idx) ==
    {f \in Paths(H, T, idx) : At(H, f) # At(T, f) /\ At(idx, f) # At(T, f)}

SwitchIndex(H, T, idx) == PutAll(idx, T, SwitchChanged(H, T, idx))

SwitchFiles(H, T, idx, files) == PutAll(files, T, SwitchChanged(H, T, idx))

\* git checkout <branch> -f: index and tracked files become T; files that
\* were tracked and are not in T go; untracked files stay
ForcedFiles(H, T, idx, files) ==
    LET S == (DOMAIN files \ (DOMAIN idx \cup DOMAIN H)) \cup DOMAIN T
    IN  [f \in S |-> IF f \in DOMAIN T THEN T[f] ELSE files[f]]

\* git checkout <tree-ish> -- <paths>: every path must be in the tree
CheckoutPathsOk(T, paths) == \A f \in paths : f \in DOMAIN T

\* git checkout <tree-ish> -- . : the files of the tree, over what is there
Overlay(tree, T) == PutAll(tree, T, DOMAIN T)

\* git branch -D: the branch must exist and must not be checked out
BranchDeleteOk(hd, brs, b) == b \in DOMAIN brs /\ hd # b

\* the operations that do not touch the repository run on no repository
NoRepository ==
    /\ branches = <<>>
    /\ index = <<>>
    /\ tags = <<>>
    /\ remote = <<>>
    /\ hosted = {}
    /\ ignored = {}
    /\ cmdLog = <<>>
    /\ atStart = <<>>

----------------------------------------------------------------------------
(* The archive operations of the main entry: --zip and --full-backup       *)

ArchivePaths ==
    {<<PluginName, ADllName>>, <<ManifestName>>, <<NotesName>>, <<SecretName>>,
     <<GitignoreName>>, <<DotGit, GitConfigName>>, <<DocsName, NotesName>>}

ScenarioWhiteList == {RulePluginDir, RuleManifest, RuleMd}

ArchiveWhiteLists == {DefaultWhiteList, ScenarioWhiteList, {RuleGitignore}, {}}

FileText == <<"text">>

InitArchive ==
    /\ pc = "main"
    /\ mode \in {"zip", "full_backup"}
    /\ sep \in {"/", "\\"}
    /\ now \in Clock
    /\ whitelist \in ArchiveWhiteLists
    /\ version \in Versions
    /\ head = "dev"
    /\ \E files \in SUBSET ArchivePaths : wt = [f \in files |-> FileText]
    /\ archives = {}
    /\ calls = <<>>
    /\ NoRepository

\* elif args.zip: create_backup(VER, "LOCAL_ZIP", destination="local")
Zip ==
    /\ pc = "main" /\ mode = "zip"
    /\ \E o \in CreateBackupOutcomes(DOMAIN wt, now, "LOCAL_ZIP", "local", version,
                                      head, whitelist, sep) :
          /\ archives' = archives \cup o.left
          /\ cmdLog' = Append(cmdLog, ArchiveLogLine(o.ok))
    /\ pc' = "done"
    /\ UNCHANGED <<mode, sep, now, whitelist, version, head, wt, calls,
                   branches, index, tags, remote, hosted, ignored, atStart>>

\* if args.full_backup: create_backup(VER, "FULL_BACKUP", destination="parent")
FullBackup ==
    /\ pc = "main" /\ mode = "full_backup"
    /\ \E o \in CreateBackupOutcomes(DOMAIN wt, now, "FULL_BACKUP", "parent", version,
                                      head, whitelist, sep) :
          /\ archives' = archives \cup o.left
          /\ cmdLog' = Append(cmdLog, ArchiveLogLine(o.ok))
    /\ pc' = "done"
    /\ UNCHANGED <<mode, sep, now, whitelist, version, head, wt, calls,
                   branches, index, tags, remote, hosted, ignored, atStart>>

NextArchive == Zip \/ FullBackup

SpecArchive == InitArchive /\ [][NextArchive]_vars

\* The rule semantics the specification gives for the whitelist
HasMetadataSegment(path) == \E i \in 1..Len(path) : path[i] = DotGit

RuleMatches(rule, path) ==
    \/ EndsWith(rule, <<"/">>) /\ StartsWith(Join(path, "/"), rule)
    \/ ReMatch(rule, path[Len(path)])

\* C1: when --zip has written its archive without an error, a file of
\* the project is in the archive if and only if its path has no .git directory segment and some
\* whitelist rule matches it (directory prefix, or regular expression on
\* the final component).
C1_ZipHoldsExactlyTheAllowedFiles ==
    (pc = "done" /\ mode = "zip" /\ cmdLog[Len(cmdLog)].rc = "ok") =>
        \A a \in archives : \A f \in DOMAIN wt :
            f \in a.entries <=>
                (~HasMetadataSegment(f) /\ \E r \in whitelist : RuleMatches(r, f))

\* C11: when create_backup has failed (an error at any point after the
\* archive was opened, or at opening it), no archive file is left at the
\* destination, the failure is in the log, and the process goes on to its
\* normal end.
C11_FailedArchiveLeavesNoFile ==
    (pc = "done" /\ cmdLog[Len(cmdLog)].rc # "ok") =>
        /\ archives = {}
        /\ cmdLog[Len(cmdLog)].note = "Archive FAILED"

----------------------------------------------------------------------------
(* generate_changelog called repeatedly on a changelog document            *)

MaxDocBlocks == 2
MaxCalls     == 2

CHANGELOG_PATH == <<ChangelogName>>

OldSection == SectionHeader("1.0.0") \o <<" - ", "2026-10-01", NL, "- first release", NL, NL>>

\* the pieces the documents are built from: the title, a section of an
\* earlier release, a line of prose, and the "#" that makes the next title
\* a second-level heading
DocBlocks == {ChangelogTitle, OldSection, <<"Notes.", NL>>, <<"#">>}

RECURSIVE Flatten(_)
Flatten(blocks) == IF Len(blocks) = 0 THEN <<>> ELSE blocks[1] \o Flatten(Tail(blocks))

Documents ==
    {Flatten(bs) : bs \in UNION {[1..n -> DocBlocks] : n \in 0..MaxDocBlocks}}

\* what git log prints: nothing, or the subjects since the last tag
GitLogOutputs == {<<>>, <<"- fix the parser">>}

InitChangelog ==
    /\ pc = "changelog"
    /\ mode = "changelog"
    /\ sep = "/"
    /\ now \in Clock
    /\ whitelist = DefaultWhiteList
    /\ version \in Versions
    /\ head = "dev"
    /\ \/ wt = <<>>
       \/ \E d \in Documents : wt = (CHANGELOG_PATH :> d)
    /\ archives = {}
    /\ calls = <<>>
    /\ NoRepository

\* one call of generate_changelog(version); the clock and the history differ
\* from call to call
GenerateChangelog ==
    /\ pc = "changelog"
    /\ Len(calls) < MaxCalls
    /\ \E ver \in Versions, t \in Clock, gitlog \in GitLogOutputs :
          /\ wt' = ChangelogWritten(wt, CHANGELOG_PATH, ver, t.date, gitlog)
          /\ calls' = Append(calls, [version |-> ver, before |-> wt, after |-> wt'])
          /\ version' = ver
          /\ now' = t
    /\ UNCHANGED <<pc, mode, sep, whitelist, head, archives, gitVars>>

NextChangelog == GenerateChangelog

SpecChangelog == InitChangelog /\ [][NextChangelog]_vars

\* the number of section headers of a version in a document
RECURSIVE CountOf(_, _)
CountOf(s, sub) ==
    IF Len(s) < Len(sub) THEN 0
    ELSE (IF StartsWith(s, sub) THEN 1 ELSE 0) + CountOf(Tail(s), sub)

Sections(files, ver) ==
    IF CHANGELOG_PATH \in DOMAIN files
    THEN CountOf(files[CHANGELOG_PATH], SectionHeader(ver)) ELSE 0

\* C5: a call of generate_changelog for a version that an earlier call was
\* made for leaves the document as it found it, so the document after the
\* second of two calls with one version is the document after the first,
\* and the second call adds no section.
C5_SecondCallChangesNothing ==
    \A i \in 1..Len(calls) : \A j \in 1..Len(calls) :
        (i < j /\ calls[i].version = calls[j].version) =>
            /\ calls[j].after = calls[j].before
            /\ (j = i + 1 => calls[j].after = calls[i].after)
            /\ Sections(calls[j].after, calls[j].version)
                   = Sections(calls[i].after, calls[i].version)

\* two calls for one version, the first of which inserted the section
C5_Witness ==
    /\ Len(calls) >= 2
    /\ calls[1].version = calls[2].version
    /\ calls[1].after # calls[1].before
    /\ Sections(calls[1].after, calls[1].version) = 1
    /\ calls[2].after = calls[1].after

\* C15: a call of generate_changelog for a version the document holds no
\* section of leaves the document with exactly one section of it, right
\* after the title line.
C15_OneSectionRightAfterTitle ==
    \A i \in 1..Len(calls) :
        Sections(calls[i].before, calls[i].version) = 0 =>
            /\ Sections(calls[i].after, calls[i].version) = 1
            /\ Contains(calls[i].after[CHANGELOG_PATH],
                        ChangelogTitle \o SectionHeader(calls[i].version))

----------------------------------------------------------------------------
(* The release run: main with --deploy or --update, handle_master_sync     *)

DEV_BRANCH     == "dev"
RELEASE_BRANCH == "master"
temp_branch    == "temp_release_work"

README_PATH   == <<ReadmeName>>
MANIFEST_PATH == <<ManifestName>>
SecretPath    == <<SecretName>>
SyncPyPath    == <<SyncPyName>>
ConfigPath    == <<ConfigName>>
PluginPath    == <<PluginName, ADllName>>
NotesPath     == <<NotesName>>
\* a build output, which git ignores
ObjName       == <<"o", "b", "j">>
ObjPath       == <<ObjName, ADllName>>
LogFileName   == <<"2", "0", "2", "6", "1", "1", "0", "1", ".", "l", "o", "g">>
LogPath       == <<LogsName, LogFileName>>

ManifestText(ver) == <<"<Plugin>", "<Version>", ver, "</Version>", "</Plugin>">>
ReadmeText(ver)   == <<"# Project", NL, "Version: ", ver, NL>>

\* the development branch as the repository holds it before the first run
DevTree(changelog) ==
    (CHANGELOG_PATH :> changelog) @@ (README_PATH :> ReadmeText("1.0.0"))
        @@ (MANIFEST_PATH :> ManifestText("1.0.0")) @@ (SecretPath :> FileText)
        @@ (SyncPyPath :> FileText) @@ (PluginPath :> FileText)

\* log_and_print: the line is appended to the day's log file, whose
\* directory is created when missing
Logged(files) ==
    [f \in DOMAIN files \cup {LogPath} |-> IF f = LogPath THEN LogText ELSE files[f]]

\* a mutation: a failed command does not end the process
AfterCheckRunContinues(ok, next) == next

\* check_run(cmd): the position after the command: sys.exit(1) when the
\* command returned non-zero
AfterCheckRun(ok, next) == IF ok THEN next ELSE "exit1"

\* the record of one external command: rc is "ok", "env" when the command
\* failed for a reason outside the repository's state (network, permissions,
\* locks), "state" when the state of the repository made it fail
Entry(step, checked, env, pre, note) ==
    [step |-> step, checked |-> checked,
     rc |-> IF ~env THEN "env" ELSE IF ~pre THEN "state" ELSE "ok",
     note |-> note]

\* get_current_branch(): git rev-parse --abbrev-ref HEAD prints HEAD, and
\* fails, while the branch is unborn
CurrentBranch(hd, brs) == IF hd \in DOMAIN brs THEN hd ELSE "HEAD"

RevParse(step, hd, brs) == Entry(step, FALSE, TRUE, hd \in DOMAIN brs, "")

\* the settings file, read and written with configparser: option names
\* each followed by their value
DefaultVersion == "1.0.0"
ChangeMe       == "CHANGE_ME"

SettingsText(folder, ver) == <<"LocalFolderName", folder, "DefaultVersion", ver>>

\* config.has_option('SETTINGS', key)
HasOption(text, key) == \E i \in 1..Len(text) : i % 2 = 1 /\ text[i] = key

\* config.get('SETTINGS', key) / cfg.get(key)
GetOption(text, key) ==
    text[(CHOOSE i \in 1..Len(text) : i % 2 = 1 /\ text[i] = key) + 1]

\* config.set('SETTINGS', key, value)
SetOption(text, key, value) ==
    IF HasOption(text, key)
    THEN [i \in 1..Len(text) |->
             IF i % 2 = 0 /\ text[i - 1] = key THEN value ELSE text[i]]
    ELSE text \o <<key, value>>

\* the manifest as ET.parse reads it: a root element holding child
\* elements, each an opening tag, its text and the closing tag
CloseTag(open) ==
    IF open = "<Version>" THEN "</Version>"
    ELSE IF open = "<Name>" THEN "</Name>"
    ELSE "<none>"

ManifestParses(m) ==
    /\ Len(m) >= 2
    /\ m[1] = "<Plugin>" /\ m[Len(m)] = "</Plugin>"
    /\ (Len(m) - 2) % 3 = 0
    /\ \A k \in 0..((Len(m) - 2) \div 3 - 1) :
          /\ CloseTag(m[3 * k + 2]) # "<none>"
          /\ m[3 * k + 4] = CloseTag(m[3 * k + 2])

\* tree.getroot().find('Version'): the index of the first Version child, or 0
FindVersion(m) ==
    LET hits == {k \in 0..((Len(m) - 2) \div 3 - 1) : m[3 * k + 2] = "<Version>"}
    IN  IF hits = {} THEN 0
        ELSE 3 * (CHOOSE k \in hits : \A h \in hits : k <= h) + 2

\* str.strip() on the texts a Version element is given here
StripText(t) ==
    IF t = " 1.0.1 " THEN "1.0.1"
    ELSE IF t = " " THEN ""
    ELSE t

\* current_ver after the manifest was looked at: "" stands for None and for
\* the empty string, which the code treats alike (if not current_ver).  An
\* element without text has node.text None, and node.text.strip() raises
\* into the bare except.
ManifestCurrentVer(files) ==
    IF MANIFEST_PATH \notin DOMAIN files THEN ""
    ELSE LET m == files[MANIFEST_PATH]
         IN  IF ~ManifestParses(m) THEN ""
             ELSE IF FindVersion(m) = 0 THEN ""
             ELSE StripText(m[FindVersion(m) + 1])

\* a mutation: the stored default wins over the manifest
ResolvedVersionDefaultFirst(files, stored, user_input) ==
    IF user_input # "" THEN user_input
    ELSE IF stored # "" THEN stored ELSE ManifestCurrentVer(files)

\* the value get_project_version returns: the manifest's version, else the
\* stored default, unless the operator typed another at the prompt
ResolvedVersion(files, stored, user_input) ==
    LET current_ver == IF ManifestCurrentVer(files) = "" THEN stored
                       ELSE ManifestCurrentVer(files)
    IN  IF user_input # "" THEN user_input ELSE current_ver

\* the version with --yes
ManifestVersion(files) == ResolvedVersion(files, GetOption(files[ConfigPath], "DefaultVersion"), "")

MaxRuns        == 2
MaxEnvFailures == 1

\* what a run starts from: which run it is, how many commands have failed
\* for outside reasons in the runs before, whether the temporary branch
\* exists, the tags there are, the branch checked out and the files of
\* the working tree
Snapshot(n, failures, brs, tgs, hd, files) ==
    [run |-> n, failures |-> failures,
     temp |-> temp_branch \in DOMAIN brs, tags |-> DOMAIN tgs,
     head |-> hd, files |-> files]

EnvFailures(log) == Cardinality({i \in 1..Len(log) : log[i].rc = "env"})

\* the outcomes the environment may give a command: TRUE when nothing
\* outside the repository makes it fail
EnvOutcomes ==
    IF atStart.failures + EnvFailures(cmdLog) < MaxEnvFailures THEN BOOLEAN ELSE {TRUE}

Modes == {"deploy", "update"}

Init ==
    /\ pc = "main"
    /\ mode \in Modes
    /\ sep = "/"
    /\ now = [date |-> "2026-11-01", time |-> "120000"]
    /\ whitelist = DefaultWhiteList
    /\ version = "unresolved"
    /\ head = DEV_BRANCH
    /\ ignored \in {{ConfigPath, ObjPath}, {ConfigPath, ObjPath, LogPath}}
    /\ \E changelog \in {ChangelogTitle, ChangelogTitle \o OldSection} :
          LET dev == DevTree(changelog)
              rel == ApplyWhitelistTo(dev, whitelist)
          IN  /\ branches = (DEV_BRANCH :> dev) @@ (RELEASE_BRANCH :> rel)
              /\ remote = [release |-> rel, dev |-> dev, tags |-> {}, relation |-> "synced"]
    /\ index = branches[head]
    /\ \E manifest \in Versions, notes \in BOOLEAN, obj \in BOOLEAN :
          wt = [f \in DOMAIN index \cup {ConfigPath} \cup (IF notes THEN {NotesPath} ELSE {})
                       \cup (IF obj THEN {ObjPath} ELSE {}) |->
                   IF f = MANIFEST_PATH THEN ManifestText(manifest)
                   ELSE IF f \in DOMAIN index THEN index[f]
                   ELSE IF f = ConfigPath THEN SettingsText(PROJECT_NAME, DefaultVersion)
                   ELSE FileText]
    /\ tags = <<>>
    /\ hosted = {}
    /\ archives = {}
    /\ calls = <<>>
    /\ cmdLog = <<>>
    /\ atStart = Snapshot(1, 0, branches, tags, head, wt)

\* verify_env(is_release_op=True), the directory being the configured one:
\* on the release branch the development branch is checked out first
VerifyEnv(step, checkout, next) ==
    LET curr == CurrentBranch(head, branches)
        rev  == RevParse(step, head, branches)
    IN  IF curr = RELEASE_BRANCH
        THEN \E env \in EnvOutcomes :
               LET files == Logged(wt)
                   H     == HeadTree(head, branches)
                   pre   == /\ DEV_BRANCH \in DOMAIN branches
                            /\ SwitchOk(H, At(branches, DEV_BRANCH), index, files, ignored)
                   ok    == env /\ pre
               IN  /\ cmdLog' = cmdLog \o <<rev, Entry(checkout, TRUE, env, pre, "")>>
                   /\ pc' = AfterCheckRun(ok, next)
                   /\ head' = IF ok THEN DEV_BRANCH ELSE head
                   /\ index' = IF ok THEN SwitchIndex(H, branches[DEV_BRANCH], index) ELSE index
                   /\ wt' = IF ok THEN SwitchFiles(H, branches[DEV_BRANCH], index, files) ELSE files
        ELSE /\ cmdLog' = Append(cmdLog, rev)
             /\ pc' = next
             /\ UNCHANGED <<head, index, wt>>

\* verify_env(is_release_op=(args.deploy or args.update)) of the main entry
VerifyEnvMain ==
    /\ pc = "main"
    /\ VerifyEnv("verify_env", "verify_env_checkout", "get_version")
    /\ UNCHANGED <<mode, sep, now, whitelist, version, archives, calls,
                   branches, tags, remote, hosted, ignored, atStart>>

\* VER = get_project_version(args.yes) with --yes, or with the prompt
\* answered by Enter: the manifest's version; the settings file is written
GetProjectVersion ==
    /\ pc = "get_version"
    /\ version' = ManifestVersion(wt)
    /\ wt' = Put(wt, ConfigPath, SetOption(wt[ConfigPath], "DefaultVersion", ManifestVersion(wt)))
    /\ pc' = "sync"
    /\ UNCHANGED <<mode, sep, now, whitelist, head, archives, calls, gitVars>>

\* verify_env(is_release_op=True) of handle_master_sync
VerifyEnvSync ==
    /\ pc = "sync"
    /\ VerifyEnv("sync_verify_env", "sync_verify_env_checkout", "metadata")
    /\ UNCHANGED <<mode, sep, now, whitelist, version, archives, calls,
                   branches, tags, remote, hosted, ignored, atStart>>

\* notes = generate_changelog(version), then the README rewrite
RegenerateMetadata ==
    /\ pc = "metadata"
    /\ \E gitlog \in GitLogOutputs \ {<<>>} :
          LET files == ChangelogWritten(wt, CHANGELOG_PATH, version, now.date, gitlog)
          IN  wt' = IF README_PATH \in DOMAIN files
                    THEN Put(files, README_PATH, ReadmeRewritten(files[README_PATH], version))
                    ELSE files
    /\ cmdLog' = cmdLog \o
          <<Entry("git describe", FALSE, TRUE, DOMAIN tags # {}, ""),
            Entry("git log", FALSE, TRUE, TRUE, "")>>
    /\ pc' = "metadata_add"
    /\ UNCHANGED <<mode, sep, now, whitelist, version, head, archives, calls,
                   branches, index, tags, remote, hosted, ignored, atStart>>

\* check_run(f"git add {CHANGELOG_PATH} {README_PATH}")
MetadataAdd ==
    /\ pc = "metadata_add"
    /\ \E env \in EnvOutcomes :
          LET files == Logged(wt)
              paths == {CHANGELOG_PATH, README_PATH}
              pre   == AddPathsOk(index, files, ignored, paths)
              ok    == env /\ pre
          IN  /\ cmdLog' = Append(cmdLog, Entry("metadata_add", TRUE, env, pre, ""))
              /\ pc' = AfterCheckRun(ok, "metadata_status")
              /\ index' = IF ok THEN AddPaths(index, files, paths) ELSE index
              /\ wt' = files
    /\ UNCHANGED <<mode, sep, now, whitelist, version, head, archives, calls,
                   branches, tags, remote, hosted, ignored, atStart>>

\* if subprocess.run("git status --porcelain", ...).stdout.strip():
MetadataStatus ==
    /\ pc = "metadata_status"
    /\ cmdLog' = Append(cmdLog, Entry("metadata_status", FALSE, TRUE, TRUE, ""))
    /\ pc' = IF StatusNonEmpty(head, branches, index, wt, ignored)
             THEN "metadata_commit" ELSE "backup"
    /\ UNCHANGED <<mode, sep, now, whitelist, version, head, wt, archives, calls,
                   branches, index, tags, remote, hosted, ignored, atStart>>

\* check_run(f'git commit -m "v{version} | Metadata update"')
MetadataCommit ==
    /\ pc = "metadata_commit"
    /\ \E env \in EnvOutcomes :
          LET pre == CommitOk(FALSE, head, branches, index)
              ok  == env /\ pre
          IN  /\ cmdLog' = Append(cmdLog, Entry("metadata_commit", TRUE, env, pre, ""))
              /\ pc' = AfterCheckRun(ok, "backup")
              /\ branches' = IF ok THEN Committed(head, branches, index) ELSE branches
              /\ wt' = Logged(wt)
    /\ UNCHANGED <<mode, sep, now, whitelist, version, head, archives, calls,
                   index, tags, remote, hosted, ignored, atStart>>

\* create_backup(version, f"PRE_{mode}", destination="parent"): an error
\* while the archive is written is caught and logged, and the run goes on
PreReleaseBackup ==
    /\ pc = "backup"
    /\ \E written \in BOOLEAN :
          archives' = IF written
                      THEN archives \cup
                             {BackupArchive(DOMAIN wt, now,
                                            IF mode = "deploy" THEN "PRE_DEPLOY" ELSE "PRE_UPDATE",
                                            "parent", version,
                                            CurrentBranch(head, branches), whitelist, sep)}
                      ELSE archives
    /\ cmdLog' = Append(cmdLog, RevParse("backup", head, branches))
    /\ wt' = Logged(wt)
    /\ pc' = "delete_stale"
    /\ UNCHANGED <<mode, sep, now, whitelist, version, head, calls,
                   branches, index, tags, remote, hosted, ignored, atStart>>

\* subprocess.run(f"git branch -D {temp_branch}", ...): the result is not looked at
DeleteStaleBranch ==
    /\ pc = "delete_stale"
    /\ LET ok == BranchDeleteOk(head, branches, temp_branch)
       IN  /\ cmdLog' = Append(cmdLog, Entry("delete_stale", FALSE, TRUE, ok, ""))
           /\ branches' = IF ok THEN Restrict(branches, DOMAIN branches \ {temp_branch})
                          ELSE branches
    /\ pc' = "checkout_orphan"
    /\ UNCHANGED <<mode, sep, now, whitelist, version, head, wt, archives, calls,
                   index, tags, remote, hosted, ignored, atStart>>

\* check_run(f"git checkout --orphan {temp_branch} {DEV_BRANCH}")
CheckoutOrphan ==
    /\ pc = "checkout_orphan"
    /\ \E env \in EnvOutcomes :
          LET files == Logged(wt)
              H     == HeadTree(head, branches)
              pre   == /\ temp_branch \notin DOMAIN branches
                       /\ DEV_BRANCH \in DOMAIN branches
                       /\ SwitchOk(H, At(branches, DEV_BRANCH), index, files, ignored)
              ok    == env /\ pre
          IN  /\ cmdLog' = Append(cmdLog, Entry("checkout_orphan", TRUE, env, pre, ""))
              /\ pc' = AfterCheckRun(ok, "apply_whitelist")
              /\ head' = IF ok THEN temp_branch ELSE head
              /\ index' = IF ok THEN SwitchIndex(H, branches[DEV_BRANCH], index) ELSE index
              /\ wt' = IF ok THEN SwitchFiles(H, branches[DEV_BRANCH], index, files) ELSE files
    /\ UNCHANGED <<mode, sep, now, whitelist, version, archives, calls,
                   branches, tags, remote, hosted, ignored, atStart>>

\* apply_whitelist()
ApplyWhitelist ==
    /\ pc = "apply_whitelist"
    /\ wt' = ApplyWhitelistTo(wt, whitelist)
    /\ pc' = "add_all"
    /\ UNCHANGED <<mode, sep, now, whitelist, version, head, archives, calls, gitVars>>

\* check_run("git add -A") on the temporary branch
AddAll ==
    /\ pc = "add_all"
    /\ \E env \in EnvOutcomes :
          LET files == Logged(wt)
          IN  /\ cmdLog' = Append(cmdLog, Entry("add_all", TRUE, env, TRUE, ""))
              /\ pc' = AfterCheckRun(env, "commit_release")
              /\ index' = IF env THEN AddAllIndex(index, files, ignored, LogPath) ELSE index
              /\ wt' = files
    /\ UNCHANGED <<mode, sep, now, whitelist, version, head, archives, calls,
                   branches, tags, remote, hosted, ignored, atStart>>

\* check_run(f'git commit -m "Release v{version}" --allow-empty')
CommitRelease ==
    /\ pc = "commit_release"
    /\ \E env \in EnvOutcomes :
          LET pre == CommitOk(TRUE, head, branches, index)
              ok  == env /\ pre
          IN  /\ cmdLog' = Append(cmdLog, Entry("commit_release", TRUE, env, pre, ""))
              /\ pc' = AfterCheckRun(ok, IF mode = "deploy" THEN "push_deploy"
                                                            ELSE "checkout_release")
              /\ branches' = IF ok THEN Committed(head, branches, index) ELSE branches
              /\ wt' = Logged(wt)
    /\ UNCHANGED <<mode, sep, now, whitelist, version, head, archives, calls,
                   index, tags, remote, hosted, ignored, atStart>>

\* check_run(f"git push {ReleaseRemote} {temp_branch}:{RELEASE_BRANCH} --force"):
\* the release branch of the remote becomes the parentless release commit
PushDeploy ==
    /\ pc = "push_deploy"
    /\ \E env \in EnvOutcomes :
          LET pre == temp_branch \in DOMAIN branches
              ok  == env /\ pre
          IN  /\ cmdLog' = Append(cmdLog, Entry("push_deploy", TRUE, env, pre, ""))
              /\ pc' = AfterCheckRun(ok, "tag_create")
              /\ remote' = IF ok
                           THEN [remote EXCEPT !.release = branches[temp_branch],
                                               !.relation = "diverged"]
                           ELSE remote
              /\ wt' = Logged(wt)
    /\ UNCHANGED <<mode, sep, now, whitelist, version, head, archives, calls,
                   branches, index, tags, hosted, ignored, atStart>>

\* check_run(f"git checkout {RELEASE_BRANCH}")
CheckoutRelease ==
    /\ pc = "checkout_release"
    /\ \E env \in EnvOutcomes :
          LET files == Logged(wt)
              H     == HeadTree(head, branches)
              pre   == /\ RELEASE_BRANCH \in DOMAIN branches
                       /\ SwitchOk(H, At(branches, RELEASE_BRANCH), index, files, ignored)
              ok    == env /\ pre
          IN  /\ cmdLog' = Append(cmdLog, Entry("checkout_release", TRUE, env, pre, ""))
              /\ pc' = AfterCheckRun(ok, "pull_release")
              /\ head' = IF ok THEN RELEASE_BRANCH ELSE head
              /\ index' = IF ok THEN SwitchIndex(H, branches[RELEASE_BRANCH], index) ELSE index
              /\ wt' = IF ok THEN SwitchFiles(H, branches[RELEASE_BRANCH], index, files) ELSE files
    /\ UNCHANGED <<mode, sep, now, whitelist, version, archives, calls,
                   branches, tags, remote, hosted, ignored, atStart>>

\* check_run(f"git pull {ReleaseRemote} {RELEASE_BRANCH}"): nothing to fetch
\* when the local branch has the remote's commit, no way to reconcile when a
\* deploy has replaced the remote's history
PullRelease ==
    /\ pc = "pull_release"
    /\ \E env \in EnvOutcomes :
          LET pre == remote.relation # "diverged"
              ok  == env /\ pre
          IN  /\ cmdLog' = Append(cmdLog, Entry("pull_release", TRUE, env, pre, ""))
              /\ pc' = AfterCheckRun(ok, "overlay_temp")
              /\ wt' = Logged(wt)
    /\ UNCHANGED <<mode, sep, now, whitelist, version, head, archives, calls,
                   branches, index, tags, remote, hosted, ignored, atStart>>

\* check_run(f"git checkout {temp_branch} -- .")
OverlayTemp ==
    /\ pc = "overlay_temp"
    /\ \E env \in EnvOutcomes :
          LET files == Logged(wt)
              T     == At(branches, temp_branch)
              pre   == temp_branch \in DOMAIN branches /\ DOMAIN T # {}
              ok    == env /\ pre
          IN  /\ cmdLog' = Append(cmdLog, Entry("overlay_temp", TRUE, env, pre, ""))
              /\ pc' = AfterCheckRun(ok, "add_all_update")
              /\ index' = IF ok THEN Overlay(index, T) ELSE index
              /\ wt' = IF ok THEN Overlay(files, T) ELSE files
    /\ UNCHANGED <<mode, sep, now, whitelist, version, head, archives, calls,
                   branches, tags, remote, hosted, ignored, atStart>>

\* check_run("git add -A") on the release branch
AddAllUpdate ==
    /\ pc = "add_all_update"
    /\ \E env \in EnvOutcomes :
          LET files == Logged(wt)
          IN  /\ cmdLog' = Append(cmdLog, Entry("add_all_update", TRUE, env, TRUE, ""))
              /\ pc' = AfterCheckRun(env, "commit_update")
              /\ index' = IF env THEN AddAllIndex(index, files, ignored, LogPath) ELSE index
              /\ wt' = files
    /\ UNCHANGED <<mode, sep, now, whitelist, version, head, archives, calls,
                   branches, tags, remote, hosted, ignored, atStart>>

\* a mutation: the commit is made without --allow-empty
UpdateCommitNeedsChanges(hd, brs, idx) == CommitOk(FALSE, hd, brs, idx)

\* the commit of PUSH_UPDATE is made with --allow-empty
UpdateCommitOk(hd, brs, idx) == CommitOk(TRUE, hd, brs, idx)

\* check_run(f'git commit -m "Update v{version}" --allow-empty')
CommitUpdate ==
    /\ pc = "commit_update"
    /\ \E env \in EnvOutcomes :
          LET pre == UpdateCommitOk(head, branches, index)
              ok  == env /\ pre
              note == IF index = HeadTree(head, branches) THEN "empty" ELSE "changes"
          IN  /\ cmdLog' = Append(cmdLog, Entry("commit_update", TRUE, env, pre, note))
              /\ pc' = AfterCheckRun(ok, "push_update")
              /\ branches' = IF ok THEN Committed(head, branches, index) ELSE branches
              /\ remote' = IF ok /\ remote.relation = "synced"
                           THEN [remote EXCEPT !.relation = "ahead"] ELSE remote
              /\ wt' = Logged(wt)
    /\ UNCHANGED <<mode, sep, now, whitelist, version, head, archives, calls,
                   index, tags, hosted, ignored, atStart>>

\* check_run(f"git push {ReleaseRemote} {RELEASE_BRANCH}")
PushUpdate ==
    /\ pc = "push_update"
    /\ \E env \in EnvOutcomes :
          LET pre == RELEASE_BRANCH \in DOMAIN branches /\ remote.relation # "diverged"
              ok  == env /\ pre
          IN  /\ cmdLog' = Append(cmdLog, Entry("push_update", TRUE, env, pre, ""))
              /\ pc' = AfterCheckRun(ok, "tag_create")
              /\ remote' = IF ok
                           THEN [remote EXCEPT !.release = branches[RELEASE_BRANCH],
                                               !.relation = "synced"]
                           ELSE remote
              /\ wt' = Logged(wt)
    /\ UNCHANGED <<mode, sep, now, whitelist, version, head, archives, calls,
                   branches, index, tags, hosted, ignored, atStart>>

\* a mutation: the tag is put on the development branch's commit
TaggedTreeOnDev(hd, brs) == brs[DEV_BRANCH]

\* git tag -a v{version}: the tag names the commit HEAD is at
TaggedTree(hd, brs) == brs[hd]

\* check_run(f"git tag -a v{version} -m 'v{version}'")
TagCreate ==
    /\ pc = "tag_create"
    /\ \E env \in EnvOutcomes :
          LET pre == version \notin DOMAIN tags /\ head \in DOMAIN branches
              ok  == env /\ pre
          IN  /\ cmdLog' = Append(cmdLog, Entry("tag_create", TRUE, env, pre, ""))
              /\ pc' = AfterCheckRun(ok, "tag_push")
              /\ tags' = IF ok
                         THEN [v \in DOMAIN tags \cup {version} |->
                                  IF v = version THEN TaggedTree(head, branches) ELSE tags[v]]
                         ELSE tags
              /\ wt' = Logged(wt)
    /\ UNCHANGED <<mode, sep, now, whitelist, version, head, archives, calls,
                   branches, index, remote, hosted, ignored, atStart>>

\* check_run(f"git push {ReleaseRemote} v{version}")
TagPush ==
    /\ pc = "tag_push"
    /\ \E env \in EnvOutcomes :
          LET pre == version \in DOMAIN tags
              ok  == env /\ pre
          IN  /\ cmdLog' = Append(cmdLog, Entry("tag_push", TRUE, env, pre, ""))
              /\ pc' = AfterCheckRun(ok, IF mode = "deploy" THEN "get_url" ELSE "checkout_dev")
              /\ remote' = IF ok THEN [remote EXCEPT !.tags = @ \cup {version}] ELSE remote
              /\ wt' = Logged(wt)
    /\ UNCHANGED <<mode, sep, now, whitelist, version, head, archives, calls,
                   branches, index, tags, hosted, ignored, atStart>>

\* url = check_run(f"git remote get-url {ReleaseRemote}")
GetUrl ==
    /\ pc = "get_url"
    /\ \E env \in EnvOutcomes :
          /\ cmdLog' = Append(cmdLog, Entry("get_url", TRUE, env, TRUE, ""))
          /\ pc' = AfterCheckRun(env, "release_delete")
          /\ wt' = Logged(wt)
    /\ UNCHANGED <<mode, sep, now, whitelist, version, head, archives, calls,
                   branches, index, tags, remote, hosted, ignored, atStart>>

\* subprocess.run(f"gh release delete v{version} ..."): the result is not looked at
ReleaseDelete ==
    /\ pc = "release_delete"
    /\ cmdLog' = Append(cmdLog, Entry("release_delete", FALSE, TRUE, version \in hosted, ""))
    /\ hosted' = hosted \ {version}
    /\ pc' = "release_create"
    /\ UNCHANGED <<mode, sep, now, whitelist, version, head, wt, archives, calls,
                   branches, index, tags, remote, ignored, atStart>>

\* check_run(f'gh release create v{version} ...')
ReleaseCreate ==
    /\ pc = "release_create"
    /\ \E env \in EnvOutcomes :
          LET pre == version \notin hosted
              ok  == env /\ pre
          IN  /\ cmdLog' = Append(cmdLog, Entry("release_create", TRUE, env, pre, ""))
              /\ pc' = AfterCheckRun(ok, "checkout_dev")
              /\ hosted' = IF ok THEN hosted \cup {version} ELSE hosted
              /\ wt' = Logged(wt)
    /\ UNCHANGED <<mode, sep, now, whitelist, version, head, archives, calls,
                   branches, index, tags, remote, ignored, atStart>>

\* check_run(f"git checkout {DEV_BRANCH} -f")
CheckoutDev ==
    /\ pc = "checkout_dev"
    /\ \E env \in EnvOutcomes :
          LET files == Logged(wt)
              pre   == DEV_BRANCH \in DOMAIN branches
              ok    == env /\ pre
          IN  /\ cmdLog' = Append(cmdLog, Entry("checkout_dev", TRUE, env, pre, ""))
              /\ pc' = AfterCheckRun(ok, "overlay_tag")
              /\ head' = IF ok THEN DEV_BRANCH ELSE head
              /\ index' = IF ok THEN branches[DEV_BRANCH] ELSE index
              /\ wt' = IF ok
                       THEN ForcedFiles(HeadTree(head, branches), branches[DEV_BRANCH],
                                        index, files)
                       ELSE files
    /\ UNCHANGED <<mode, sep, now, whitelist, version, archives, calls,
                   branches, tags, remote, hosted, ignored, atStart>>

\* check_run(f"git checkout v{version} -- {MANIFEST_PATH} {CHANGELOG_PATH}
\* {README_PATH}", exit_on_fail=False)
OverlayFromTag ==
    /\ pc = "overlay_tag"
    /\ \E env \in EnvOutcomes :
          LET files == Logged(wt)
              paths == {MANIFEST_PATH, CHANGELOG_PATH, README_PATH}
              T     == At(tags, version)
              pre   == version \in DOMAIN tags /\ CheckoutPathsOk(T, paths)
              ok    == env /\ pre
          IN  /\ cmdLog' = Append(cmdLog, Entry("overlay_tag", FALSE, env, pre, ""))
              /\ index' = IF ok THEN PutAll(index, T, paths) ELSE index
              /\ wt' = IF ok THEN PutAll(files, T, paths) ELSE files
    /\ pc' = "syncback_status"
    /\ UNCHANGED <<mode, sep, now, whitelist, version, head, archives, calls,
                   branches, tags, remote, hosted, ignored, atStart>>

\* if subprocess.run("git status --porcelain", ...).stdout.strip():
SyncBackStatus ==
    /\ pc = "syncback_status"
    /\ cmdLog' = Append(cmdLog, Entry("syncback_status", FALSE, TRUE, TRUE, ""))
    /\ pc' = IF StatusNonEmpty(head, branches, index, wt, ignored)
             THEN "syncback_commit" ELSE "cleanup"
    /\ UNCHANGED <<mode, sep, now, whitelist, version, head, wt, archives, calls,
                   branches, index, tags, remote, hosted, ignored, atStart>>

\* check_run(f'git commit -m "v{version} | Sync metadata back from release"')
SyncBackCommit ==
    /\ pc = "syncback_commit"
    /\ \E env \in EnvOutcomes :
          LET pre == CommitOk(FALSE, head, branches, index)
              ok  == env /\ pre
          IN  /\ cmdLog' = Append(cmdLog, Entry("syncback_commit", TRUE, env, pre, ""))
              /\ pc' = AfterCheckRun(ok, "syncback_push")
              /\ branches' = IF ok THEN Committed(head, branches, index) ELSE branches
              /\ wt' = Logged(wt)
    /\ UNCHANGED <<mode, sep, now, whitelist, version, head, archives, calls,
                   index, tags, remote, hosted, ignored, atStart>>

\* check_run(f"git push {DevRemote} {DEV_BRANCH}")
SyncBackPush ==
    /\ pc = "syncback_push"
    /\ \E env \in EnvOutcomes :
          LET pre == DEV_BRANCH \in DOMAIN branches
              ok  == env /\ pre
          IN  /\ cmdLog' = Append(cmdLog, Entry("syncback_push", TRUE, env, pre, ""))
              /\ pc' = AfterCheckRun(ok, "cleanup")
              /\ remote' = IF ok THEN [remote EXCEPT !.dev = branches[DEV_BRANCH]] ELSE remote
              /\ wt' = Logged(wt)
    /\ UNCHANGED <<mode, sep, now, whitelist, version, head, archives, calls,
                   branches, index, tags, hosted, ignored, atStart>>

\* subprocess.run(f"git branch -D {temp_branch}", ...) that ends handle_master_sync
Cleanup ==
    /\ pc = "cleanup"
    /\ LET ok == BranchDeleteOk(head, branches, temp_branch)
       IN  /\ cmdLog' = Append(cmdLog, Entry("cleanup", FALSE, TRUE, ok, ""))
           /\ branches' = IF ok THEN Restrict(branches, DOMAIN branches \ {temp_branch})
                          ELSE branches
    /\ pc' = "done"
    /\ UNCHANGED <<mode, sep, now, whitelist, version, head, wt, archives, calls,
                   index, tags, remote, hosted, ignored, atStart>>

\* the operator runs the script again, on the repository as the run before left it
Rerun ==
    /\ pc \in {"done", "exit1"}
    /\ atStart.run < MaxRuns
    /\ pc' = "main"
    /\ mode' \in Modes
    /\ version' = "unresolved"
    /\ archives' = {}
    /\ cmdLog' = <<>>
    /\ atStart' = Snapshot(atStart.run + 1, atStart.failures + EnvFailures(cmdLog),
                           branches, tags, head, wt)
    /\ UNCHANGED <<sep, now, whitelist, head, wt, calls,
                   branches, index, tags, remote, hosted, ignored>>

Next ==
    \/ VerifyEnvMain \/ GetProjectVersion \/ VerifyEnvSync \/ RegenerateMetadata
    \/ MetadataAdd \/ MetadataStatus \/ MetadataCommit \/ PreReleaseBackup
    \/ DeleteStaleBranch \/ CheckoutOrphan \/ ApplyWhitelist \/ AddAll \/ CommitRelease
    \/ PushDeploy \/ CheckoutRelease \/ PullRelease \/ OverlayTemp \/ AddAllUpdate
    \/ CommitUpdate \/ PushUpdate \/ TagCreate \/ TagPush \/ GetUrl \/ ReleaseDelete
    \/ ReleaseCreate \/ CheckoutDev \/ OverlayFromTag \/ SyncBackStatus
    \/ SyncBackCommit \/ SyncBackPush \/ Cleanup \/ Rerun

Spec == Init /\ [][Next]_vars

----------------------------------------------------------------------------
(* A run with no operation flag: the settings are loaded when the script   *)
(* is imported, the directory is verified, the version is resolved, and    *)
(* the pending changes are committed and pushed on the development branch. *)

Folders == {"proj", "other"}

ManifestTexts ==
    {ManifestText("1.0.0"), ManifestText("1.0.1"), ManifestText(" 1.0.1 "),
     ManifestText(""), ManifestText(" "),
     <<"<Plugin>">>,
     <<"<Plugin>", "<Name>", "x", "</Name>", "</Plugin>">>,
     <<"<Plugin>", "<Name>", "x", "</Name>", "<Version>", "1.0.1", "</Version>", "</Plugin>">>}

SettingsFiles ==
    {SettingsText("proj", "1.0.0"), SettingsText("proj", "0.9.0"),
     SettingsText(ChangeMe, "0.9.0"), <<"LocalFolderName", "proj">>}

\* what the operator may type at the prompts
FolderAnswers  == {"", "proj", "other"}
VersionAnswers == {"", "2.0.0"}
MessageAnswers == {"", "fix"}

InitSync ==
    /\ pc = "load_config"
    /\ mode = "sync"
    /\ sep = "/"
    /\ now = [date |-> "2026-11-01", time |-> "120000"]
    /\ whitelist = DefaultWhiteList
    /\ version = "unresolved"
    /\ head \in {DEV_BRANCH, RELEASE_BRANCH}
    /\ ignored \in {{ConfigPath}, {ConfigPath, LogPath}}
    /\ LET dev == DevTree(ChangelogTitle)
           rel == ApplyWhitelistTo(dev, whitelist)
       IN  /\ branches = (DEV_BRANCH :> dev) @@ (RELEASE_BRANCH :> rel)
           /\ remote = [release |-> rel, dev |-> dev, tags |-> {}, relation |-> "synced"]
    /\ index = branches[head]
    /\ \E manifest \in ManifestTexts \cup {Absent},
          settings \in SettingsFiles \cup {Absent},
          notes \in {FileText, Absent} :
          wt = Put(Put(Put(index, MANIFEST_PATH, manifest), ConfigPath, settings),
                   NotesPath, notes)
    /\ tags = <<>>
    /\ hosted = {}
    /\ archives = {}
    /\ calls = <<>>
    /\ cmdLog = <<>>
    /\ \E cwd \in Folders, auto_yes \in BOOLEAN :
          atStart = [run |-> 1, failures |-> 0, temp |-> FALSE, tags |-> {},
                     cwd |-> cwd, auto_yes |-> auto_yes, files |-> wt, tree |-> index]

\* the settings after the defaults were filled in for the options the file
\* lacks (for key, value in defaults.items())
WithDefaults(config) ==
    LET a == IF HasOption(config, "LocalFolderName") THEN config
             ELSE SetOption(config, "LocalFolderName", ChangeMe)
    IN  IF HasOption(a, "DefaultVersion") THEN a
        ELSE SetOption(a, "DefaultVersion", DefaultVersion)

\* cfg = load_and_sync_config(), run when the script is imported: the file
\* is rewritten when an option was missing or the folder name was asked for;
\* with no folder name given the process ends before anything is written
LoadConfig ==
    /\ pc = "load_config"
    /\ LET config == IF ConfigPath \in DOMAIN wt THEN wt[ConfigPath] ELSE <<>>
           filled == WithDefaults(config)
       IN  IF GetOption(filled, "LocalFolderName") = ChangeMe
           THEN \E confirm \in {"y", "n"}, custom_name \in FolderAnswers :
                   LET name == IF confirm = "y" THEN atStart.cwd ELSE custom_name
                   IN  IF name = ""
                       THEN pc' = "exit1" /\ wt' = wt
                       ELSE /\ wt' = Put(wt, ConfigPath,
                                         SetOption(filled, "LocalFolderName", name))
                            /\ pc' = "verify_env"
           ELSE /\ wt' = IF filled # config THEN Put(wt, ConfigPath, filled) ELSE wt
                /\ pc' = "verify_env"
    /\ UNCHANGED <<mode, sep, now, whitelist, version, head, archives, calls, gitVars>>

\* verify_env(is_release_op=False): the process ends when the directory is
\* not the configured one; the branch is asked for and not acted on
VerifyEnvDirectory ==
    /\ pc = "verify_env"
    /\ IF atStart.cwd # GetOption(wt[ConfigPath], "LocalFolderName")
       THEN pc' = "exit1" /\ cmdLog' = cmdLog
       ELSE /\ pc' = "get_version"
            /\ cmdLog' = Append(cmdLog, RevParse("verify_env", head, branches))
    /\ UNCHANGED <<mode, sep, now, whitelist, version, head, wt, archives, calls,
                   branches, index, tags, remote, hosted, ignored, atStart>>

\* VER = get_project_version(args.yes): without --yes the operator is asked
\* and may type another version; the result is stored as DefaultVersion
GetProjectVersionPrompted ==
    /\ pc = "get_version"
    /\ \E user_input \in (IF atStart.auto_yes THEN {""} ELSE VersionAnswers) :
          LET stored == GetOption(wt[ConfigPath], "DefaultVersion")
              ver    == ResolvedVersion(wt, stored, user_input)
          IN  /\ version' = ver
              /\ wt' = Put(wt, ConfigPath, SetOption(wt[ConfigPath], "DefaultVersion", ver))
              /\ calls' = Append(calls, [user_input |-> user_input, stored |-> stored,
                                         manifest |-> At(wt, MANIFEST_PATH),
                                         version |-> ver])
    /\ pc' = "sync_checkout"
    /\ UNCHANGED <<mode, sep, now, whitelist, head, archives, gitVars>>

\* if get_current_branch() != DEV_BRANCH: check_run(f"git checkout {DEV_BRANCH} -f")
SyncCheckout ==
    /\ pc = "sync_checkout"
    /\ LET rev == RevParse("sync_rev_parse", head, branches)
       IN  IF CurrentBranch(head, branches) # DEV_BRANCH
           THEN \E env \in EnvOutcomes :
                  LET files == Logged(wt)
                      pre   == DEV_BRANCH \in DOMAIN branches
                      ok    == env /\ pre
                  IN  /\ cmdLog' = cmdLog \o <<rev, Entry("sync_checkout", TRUE, env, pre, "")>>
                      /\ pc' = AfterCheckRun(ok, "sync_add")
                      /\ head' = IF ok THEN DEV_BRANCH ELSE head
                      /\ index' = IF ok THEN branches[DEV_BRANCH] ELSE index
                      /\ wt' = IF ok
                               THEN ForcedFiles(HeadTree(head, branches),
                                                branches[DEV_BRANCH], index, files)
                               ELSE files
           ELSE /\ cmdLog' = Append(cmdLog, rev)
                /\ pc' = "sync_add"
                /\ UNCHANGED <<head, index, wt>>
    /\ UNCHANGED <<mode, sep, now, whitelist, version, archives, calls,
                   branches, tags, remote, hosted, ignored, atStart>>

\* check_run("git add .")
SyncAdd ==
    /\ pc = "sync_add"
    /\ \E env \in EnvOutcomes :
          LET files == Logged(wt)
          IN  /\ cmdLog' = Append(cmdLog, Entry("sync_add", TRUE, env, TRUE, ""))
              /\ pc' = AfterCheckRun(env, "sync_diff")
              /\ index' = IF env THEN AddAllIndex(index, files, ignored, LogPath) ELSE index
              /\ wt' = files
    /\ UNCHANGED <<mode, sep, now, whitelist, version, head, archives, calls,
                   branches, tags, remote, hosted, ignored, atStart>>

\* if subprocess.run("git diff --cached --name-status", ...).stdout.strip():
\* the message is "auto sync" with --yes and else asked for; with no
\* message, or nothing staged, the run is over
SyncDiff ==
    /\ pc = "sync_diff"
    /\ cmdLog' = Append(cmdLog, Entry("sync_diff", FALSE, TRUE, TRUE, ""))
    /\ IF index # HeadTree(head, branches)
       THEN \E msg \in (IF atStart.auto_yes THEN {"auto sync"} ELSE MessageAnswers) :
               pc' = IF msg # "" THEN "sync_commit" ELSE "done"
       ELSE pc' = "done"
    /\ UNCHANGED <<mode, sep, now, whitelist, version, head, wt, archives, calls,
                   branches, index, tags, remote, hosted, ignored, atStart>>

\* check_run(f'git commit -m "v{VER} | {msg}"')
SyncCommit ==
    /\ pc = "sync_commit"
    /\ \E env \in EnvOutcomes :
          LET pre == CommitOk(FALSE, head, branches, index)
              ok  == env /\ pre
          IN  /\ cmdLog' = Append(cmdLog, Entry("sync_commit", TRUE, env, pre, ""))
              /\ pc' = AfterCheckRun(ok, "sync_push")
              /\ branches' = IF ok THEN Committed(head, branches, index) ELSE branches
              /\ wt' = Logged(wt)
    /\ UNCHANGED <<mode, sep, now, whitelist, version, head, archives, calls,
                   index, tags, remote, hosted, ignored, atStart>>

\* check_run(f"git push {cfg.get('DevRemote')} {DEV_BRANCH}")
SyncPush ==
    /\ pc = "sync_push"
    /\ \E env \in EnvOutcomes :
          LET pre == DEV_BRANCH \in DOMAIN branches
              ok  == env /\ pre
          IN  /\ cmdLog' = Append(cmdLog, Entry("sync_push", TRUE, env, pre, ""))
              /\ pc' = AfterCheckRun(ok, "done")
              /\ remote' = IF ok THEN [remote EXCEPT !.dev = branches[DEV_BRANCH]] ELSE remote
              /\ wt' = Logged(wt)
    /\ UNCHANGED <<mode, sep, now, whitelist, version, head, archives, calls,
                   branches, index, tags, hosted, ignored, atStart>>

NextSync ==
    \/ LoadConfig
    \/ VerifyEnvDirectory
    \/ GetProjectVersionPrompted
    \/ SyncCheckout
    \/ SyncAdd
    \/ SyncDiff
    \/ SyncCommit
    \/ SyncPush

SpecSync == InitSync /\ [][NextSync]_vars

\* the version the specification gives a manifest: its Version field, when
\* the manifest exists, parses and has one that is not empty
UsableVersion(manifest) ==
    IF manifest \in {ManifestText("1.0.0")} THEN "1.0.0"
    ELSE IF manifest \in {ManifestText("1.0.1"), ManifestText(" 1.0.1 "),
                          <<"<Plugin>", "<Name>", "x", "</Name>",
                            "<Version>", "1.0.1", "</Version>", "</Plugin>">>}
         THEN "1.0.1"
    ELSE ""

\* C12: a version resolved with nothing typed at the prompt is the
\* manifest's Version field (surrounding blanks apart) when the manifest
\* has a usable one, whatever the stored default, and the stored default in
\* every other case; the resolution never ends the run; and the resolved
\* version, typed or not, is then the stored default.
C12_VersionFollowsManifestThenDefault ==
    /\ \A i \in 1..Len(calls) :
          calls[i].user_input = "" =>
              calls[i].version = IF UsableVersion(calls[i].manifest) # ""
                                 THEN UsableVersion(calls[i].manifest)
                                 ELSE calls[i].stored
    /\ Len(calls) > 0 =>
          /\ version = calls[Len(calls)].version
          /\ GetOption(wt[ConfigPath], "DefaultVersion") = version
    /\ (pc = "exit1" /\ Len(calls) > 0) =>
          (Len(cmdLog) > 0 /\ cmdLog[Len(cmdLog)].checked /\ cmdLog[Len(cmdLog)].rc # "ok")

\* a manifest with version 1.0.1 resolved against another stored default,
\* nothing typed, and the version stored
C12_Witness ==
    /\ Len(calls) > 0
    /\ calls[1].user_input = ""
    /\ calls[1].manifest = ManifestText("1.0.1")
    /\ calls[1].stored = "0.9.0"
    /\ version = "1.0.1"
    /\ GetOption(wt[ConfigPath], "DefaultVersion") = "1.0.1"

\* C13: as long as the directory check has not passed, and when the run
\* has ended because it failed, no file, archive or branch differs from
\* what the run started with.
C13_NothingMutatedBeforeDirectoryCheck ==
    (pc \in {"load_config", "verify_env"} \/ (pc = "exit1" /\ cmdLog = <<>>)) =>
        /\ wt = atStart.files
        /\ index = atStart.tree
        /\ archives = {}

\* the changes pending when the run started: files that differ from the
\* commit checked out, less the untracked files that are ignored
PendingAtStart ==
    {f \in DOMAIN atStart.files \cup DOMAIN atStart.tree :
        /\ At(atStart.files, f) # At(atStart.tree, f)
        /\ ~(f \in ignored /\ f \notin DOMAIN atStart.tree)}

\* C14: a run with no operation flag that has ended normally has committed
\* the changes pending at its start on the development branch and pushed
\* them; with none pending it has issued no commit and no push.  Stated
\* for the runs most favourable to the claim: started with --yes, so that
\* no commit message is asked for, in a repository that ignores the
\* session logs.
C14_PendingChangesCommittedAndPushed ==
    (pc = "done" /\ mode = "sync" /\ atStart.auto_yes /\ LogPath \in ignored) =>
        /\ PendingAtStart # {} =>
              /\ \A f \in PendingAtStart :
                    At(branches[DEV_BRANCH], f) = At(atStart.files, f)
              /\ remote.dev = branches[DEV_BRANCH]
        /\ PendingAtStart = {} =>
              \A i \in 1..Len(cmdLog) : cmdLog[i].step \notin {"sync_commit", "sync_push"}

----------------------------------------------------------------------------
(* Properties of the release run                                           *)

Last(log) == log[Len(log)]

Issued(step) == \E i \in 1..Len(cmdLog) : cmdLog[i].step = step

Succeeded(step) == \E i \in 1..Len(cmdLog) : cmdLog[i].step = step /\ cmdLog[i].rc = "ok"

Allowed(f) == \E r \in whitelist : RuleMatches(r, f)

\* C2: what apply_whitelist leaves in the working tree, and the tree the
\* "Release v{version}" commit records on the temporary branch, hold only
\* files that a whitelist rule matches.
C2_ReleaseTreeHoldsOnlyAllowedFiles ==
    /\ pc = "add_all" => \A f \in DOMAIN wt : Allowed(f)
    /\ (Len(cmdLog) > 0 /\ Last(cmdLog).step = "commit_release" /\ Last(cmdLog).rc = "ok")
          => \A f \in DOMAIN branches[temp_branch] : Allowed(f)

\* the commands of BRANCH_FLATTEN and after that create, move, delete or
\* publish a branch
BranchMutating ==
    {"delete_stale", "checkout_orphan", "commit_release", "push_deploy",
     "commit_update", "push_update", "cleanup"}

PreReleaseArchiveWritten ==
    \E a \in archives : a.type \in {"PRE_DEPLOY", "PRE_UPDATE"}

\* C3: whenever a branch-mutating command of the run has been issued, and in
\* particular whenever the push onto the release branch has, the pre-release
\* archive of the run has been written.
C3_ArchiveWrittenBeforeBranchesChange ==
    (\E i \in 1..Len(cmdLog) : cmdLog[i].step \in BranchMutating)
        => PreReleaseArchiveWritten

\* the commands the claim C4 takes not to be critical
BestEffort == {"release_delete", "delete_stale", "cleanup", "overlay_tag"}

\* C4 as claimed: a failure of any command other than the hosted-release
\* deletion, the temporary-branch deletions and the overlay from the tag is
\* the last command of the run, which has ended with status 1.
C4_AnyOtherFailureEndsTheRun ==
    \A i \in 1..Len(cmdLog) :
        (cmdLog[i].step \notin BestEffort /\ cmdLog[i].rc # "ok")
            => (i = Len(cmdLog) /\ pc = "exit1")

\* C4 as amended: a failure of a command issued through check_run with
\* exit_on_fail is the last command of the run, which has ended with status
\* 1; the run ends with status 1 for no other reason; and no command of the
\* run is issued twice.
C4_CheckedFailureEndsTheRun ==
    /\ \A i \in 1..Len(cmdLog) :
          (cmdLog[i].checked /\ cmdLog[i].rc # "ok") => (i = Len(cmdLog) /\ pc = "exit1")
    /\ pc = "exit1" =>
          (Len(cmdLog) > 0 /\ Last(cmdLog).checked /\ Last(cmdLog).rc # "ok")
    /\ \A i \in 1..Len(cmdLog) : \A j \in 1..Len(cmdLog) :
          cmdLog[i].step = cmdLog[j].step => i = j

\* a run ended by a failed check_run command, after git describe had failed
\* (there being no tag) without ending it
C4_Witness ==
    /\ pc = "exit1"
    /\ Last(cmdLog).step = "push_deploy" /\ Last(cmdLog).rc = "env"
    /\ \E i \in 1..Len(cmdLog) : cmdLog[i].step = "git describe" /\ cmdLog[i].rc = "state"

\* C6: in a run that starts with the temporary branch in place, the stale
\* branch is gone once its deletion has been attempted, and creating the
\* orphan branch is not refused by the repository.
C6_StaleBranchIsReplaced ==
    atStart.temp =>
        /\ pc = "checkout_orphan" => temp_branch \notin DOMAIN branches
        /\ \A i \in 1..Len(cmdLog) :
              cmdLog[i].step = "checkout_orphan" => cmdLog[i].rc # "state"

\* C7: in a run for a version whose tag an earlier run created, creating the
\* tag is not refused by the repository.
C7_TagStepPassesWhenTagExists ==
    \A i \in 1..Len(cmdLog) :
        (cmdLog[i].step = "tag_create" /\ version \in atStart.tags)
            => cmdLog[i].rc # "state"

\* C8: when a run that has committed on the temporary branch has ended,
\* after CLEANUP or by a failed command, the temporary branch is gone.
C8_TemporaryBranchGoneAtExit ==
    (pc \in {"done", "exit1"} /\ Succeeded("commit_release"))
        => temp_branch \notin DOMAIN branches

\* C9: the metadata commit of SYNC_METADATA_BACK is issued exactly when the
\* overlay from the tag left the index different from the development
\* branch's commit; with no such difference the run goes to CLEANUP; and
\* the overlay's failure does not end the run.
C9_SyncBackCommitsExactlyOnDiff ==
    /\ pc = "syncback_commit" => index # HeadTree(head, branches)
    /\ (pc = "cleanup" /\ Last(cmdLog).step = "syncback_status")
          => index = HeadTree(head, branches)
    /\ (Len(cmdLog) > 0 /\ Last(cmdLog).step = "overlay_tag") => pc = "syncback_status"

\* C10: in update mode the "Update v{version}" commit is never refused for
\* want of changes and never skipped: once git add -A has succeeded on the
\* release branch the commit is the next command, the push follows it, and
\* the tag step is reached only with the commit and the push done.
C10_UpdateCommitsAndPushesEvenWithNoDiff ==
    mode = "update" =>
        /\ \A i \in 1..Len(cmdLog) :
              cmdLog[i].step = "commit_update" => cmdLog[i].rc # "state"
        /\ (Len(cmdLog) > 0 /\ Last(cmdLog).step = "add_all_update" /\ Last(cmdLog).rc = "ok")
              => pc = "commit_update"
        /\ (Len(cmdLog) > 0 /\ Last(cmdLog).step = "commit_update" /\ Last(cmdLog).rc = "ok")
              => pc = "push_update"
        /\ (Len(cmdLog) > 0 /\ Last(cmdLog).step = "push_update" /\ Last(cmdLog).rc = "ok")
              => pc = "tag_create"
        /\ pc = "tag_create" => (Succeeded("commit_update") /\ Succeeded("push_update"))

\* an update run at TAG_AND_PUSH_TAG whose "Update" commit was made with
\* the index equal to the release branch's commit, and was pushed
C10_Witness ==
    /\ mode = "update"
    /\ pc = "tag_create"
    /\ \E i \in 1..Len(cmdLog) :
          /\ cmdLog[i].step = "commit_update"
          /\ cmdLog[i].note = "empty"
          /\ cmdLog[i].rc = "ok"
    /\ Succeeded("push_update")
    /\ remote.release = branches[RELEASE_BRANCH]

\* C16: the "Metadata update" commit is issued only with changes of the
\* changelog or the readme staged; with nothing staged the run goes from
\* the status query to PRE_RELEASE_BACKUP, whatever else the working tree
\* holds.
C16_MetadataCommitOnlyWithStagedChanges ==
    /\ pc = "metadata_commit" => index # HeadTree(head, branches)
    /\ (Len(cmdLog) > 0 /\ Last(cmdLog).step = "metadata_status"
            /\ index = HeadTree(head, branches))
          => pc = "backup"

\* C17: a release run that started on the development branch and has
\* ended normally has every file in the working tree that was there when
\* it started.
C17_NoFileOfTheWorkingTreeLost ==
    (pc = "done" /\ atStart.head = DEV_BRANCH /\ head = DEV_BRANCH) =>
        \A f \in DOMAIN atStart.files : f \in DOMAIN wt

\* C18: the tag a run has created is the commit the run pushed to the
\* release branch of the remote, the "Release" commit of the temporary
\* branch in deploy mode and the "Update" commit of the release branch in
\* update mode; the tag is created only after that push succeeded and
\* pushed only after it was created; the hosted release is created only in
\* deploy mode and only after the tag was pushed.
C18_TagIsThePushedCommit ==
    /\ Succeeded("tag_create") =>
          /\ version \in DOMAIN tags
          /\ tags[version] = remote.release
          /\ Succeeded(IF mode = "deploy" THEN "push_deploy" ELSE "push_update")
    /\ (Len(cmdLog) > 0 /\ Last(cmdLog).step = "tag_create" /\ Last(cmdLog).rc = "ok") =>
          tags[version] = branches[IF mode = "deploy" THEN temp_branch ELSE RELEASE_BRANCH]
    /\ Issued("tag_create") =>
          Succeeded(IF mode = "deploy" THEN "push_deploy" ELSE "push_update")
    /\ Issued("tag_push") => Succeeded("tag_create")
    /\ Issued("release_create") => (mode = "deploy" /\ Succeeded("tag_push"))
    /\ mode = "update" => ~Issued("release_create") /\ ~Issued("release_delete")

\* a deploy run that has published the hosted release for the tag it
\* created on the commit it pushed
C18_Witness ==
    /\ mode = "deploy"
    /\ Succeeded("push_deploy") /\ Succeeded("tag_push") /\ Succeeded("release_create")
    /\ version \in DOMAIN tags
    /\ tags[version] = remote.release
    /\ version \in hosted

====
